---------------------------- MODULE Spec2Model ----------------------------
(***************************************************************************)
(* Model of the delta-hedging bot: the pricing engine of src/models.py     *)
(* (erf, normal_cdf, the Barone-Adesi-Whaley pricer, calculate_delta,      *)
(* calculate_theta, the bisection solver for implied volatility) and the   *)
(* hedging loop of src/app.py.                                             *)
(*                                                                         *)
(* Numbers.  The source computes in binary floating point.  The pure       *)
(* functions are modelled in decimal floating point: a number is a record  *)
(* [m |-> mantissa, e |-> exponent] of value m * 10^e with Prec            *)
(* significant digits, every operation rounded to nearest, ties to even.   *)
(* The exponent is unbounded, so overflow and underflow to zero are not    *)
(* modelled; rounding and absorption are.                                  *)
(* The bisection solver is modelled on an integer grid (see GridPerTol).   *)
(*                                                                         *)
(* Intermediate values are passed on as operator parameters rather than    *)
(* bound by LET, so that each expression occurs once in an action.         *)
(***************************************************************************)
EXTENDS Integers, Sequences, FiniteSets, TLC

\* Significant decimal digits of a modelled floating-point number.
Prec == 4

(***************************************************************************)
(* Decimal floating point                                                  *)
(***************************************************************************)
RECURSIVE Pow10(_)
Pow10(k) == IF k <= 0 THEN 1 ELSE 10 * Pow10(k - 1)

RECURSIVE NumDigits(_)
NumDigits(n) == IF n < 10 THEN 1 ELSE 1 + NumDigits(n \div 10)

Abs(n) == IF n < 0 THEN -n ELSE n

Sgn(n) == IF n < 0 THEN -1 ELSE IF n = 0 THEN 0 ELSE 1

FZero == [m |-> 0, e |-> 0]

\* q, or q + 1 when the remainder r of a division by d is above the half (ties
\* to even); sticky says that digits below the dividend were already dropped.
RoundUp(q, r, d, sticky) ==
    IF 2 * r > d \/ (2 * r = d /\ (sticky \/ q % 2 = 1)) THEN q + 1 ELSE q

RoundDiv(n, d, sticky) == RoundUp(n \div d, n % d, d, sticky)

\* The float sgn * q * 10^e, q of Prec digits or, after rounding up, 10^Prec.
FPack(sgn, q, e) ==
    IF q = Pow10(Prec) THEN [m |-> sgn * Pow10(Prec - 1), e |-> e + 1]
    ELSE [m |-> sgn * q, e |-> e]

FNormN(m, e, sticky, n) ==
    IF n > Prec
    THEN FPack(Sgn(m), RoundDiv(Abs(m), Pow10(n - Prec), sticky), e + (n - Prec))
    ELSE [m |-> m * Pow10(Prec - n), e |-> e - (Prec - n)]

\* The float nearest to m * 10^e (plus a positive remainder when sticky).
FNorm(m, e, sticky) == IF m = 0 THEN FZero ELSE FNormN(m, e, sticky, NumDigits(Abs(m)))

\* A literal of the source: digits * 10^exp, rounded to Prec digits.
Lit(digits, exp) == FNorm(digits, exp, FALSE)

FInt(n) == FNorm(n, 0, FALSE)

FNeg(x) == [m |-> -x.m, e |-> x.e]

FAbs(x) == [m |-> Abs(x.m), e |-> x.e]

\* x * 10^n
FShift(x, n) == [m |-> x.m, e |-> x.e + n]

One == [m |-> Pow10(Prec - 1), e |-> -(Prec - 1)]

Two == [m |-> 2 * Pow10(Prec - 1), e |-> -(Prec - 1)]

Half == [m |-> 5 * Pow10(Prec - 1), e |-> -Prec]

\* hi + lo where lo, d >= 5 digits below hi, is cut to q with remainder rem.
FAddCut(hi, lo, q, rem) ==
    FNorm(Sgn(hi.m) * (IF Sgn(hi.m) = Sgn(lo.m) THEN Abs(hi.m) * 10000 + q
                       ELSE IF rem = 0 THEN Abs(hi.m) * 10000 - q
                       ELSE Abs(hi.m) * 10000 - q - 1),
          hi.e - 4, rem # 0)

\* hi + lo for hi.e - lo.e = d >= 0.  hi is shifted up by at most 4 digits;
\* beyond that lo is cut, its lost digits kept as sticky, or absorbed.
FAddOrd(hi, lo, d) ==
    IF d > Prec + 2 THEN hi
    ELSE IF d <= 4 THEN FNorm(hi.m * Pow10(d) + lo.m, lo.e, FALSE)
    ELSE FAddCut(hi, lo, Abs(lo.m) \div Pow10(d - 4), Abs(lo.m) % Pow10(d - 4))

FAdd(x, y) ==
    IF x.m = 0 THEN y
    ELSE IF y.m = 0 THEN x
    ELSE FAddOrd(IF x.e >= y.e THEN x ELSE y, IF x.e >= y.e THEN y ELSE x,
                 Abs(x.e - y.e))

FSub(x, y) == FAdd(x, FNeg(y))

FMulParts(sgn, low, top, split, e) ==
    FNorm(sgn * (top + (low \div split)), e, low % split # 0)

\* x * y, the product of the mantissas formed in two parts to stay in range.
FMulSplit(x, y, split) ==
    FMulParts(Sgn(x.m) * Sgn(y.m), (Abs(x.m) % split) * Abs(y.m),
              (Abs(x.m) \div split) * Abs(y.m), split, x.e + y.e + (Prec - 2))

FMul(x, y) == IF x.m = 0 \/ y.m = 0 THEN FZero ELSE FMulSplit(x, y, Pow10(Prec - 2))

FDivParts(sgn, q1, r1, b, e) ==
    FNorm(sgn * (q1 * 1000 + ((r1 * 1000) \div b)), e, (r1 * 1000) % b # 0)

\* x / y for y # 0, by long division, three digits at a time.
FDiv(x, y) ==
    IF x.m = 0 THEN FZero
    ELSE FDivParts(Sgn(x.m) * Sgn(y.m), (Abs(x.m) * 1000) \div Abs(y.m),
                   (Abs(x.m) * 1000) % Abs(y.m), Abs(y.m), x.e - y.e - 6)

\* Sign of x - y (-1, 0 or 1) for x, y > 0.
FCmpPos(x, y) ==
    IF x.e # y.e THEN (IF x.e > y.e THEN 1 ELSE -1) ELSE Sgn(x.m - y.m)

\* Sign of x - y: -1, 0 or 1.
FCmp(x, y) ==
    IF Sgn(x.m) # Sgn(y.m) THEN Sgn(Sgn(x.m) - Sgn(y.m))
    ELSE IF x.m = 0 THEN 0
    ELSE Sgn(x.m) * FCmpPos(FAbs(x), FAbs(y))

FLt(x, y) == FCmp(x, y) < 0

FLe(x, y) == FCmp(x, y) <= 0

\* Largest s in lo..hi with s * s <= n.
RECURSIVE ISqrtIn(_, _, _)
ISqrtIn(n, lo, hi) ==
    IF lo >= hi THEN lo
    ELSE IF ((lo + hi + 1) \div 2) * ((lo + hi + 1) \div 2) <= n
         THEN ISqrtIn(n, (lo + hi + 1) \div 2, hi)
         ELSE ISqrtIn(n, lo, ((lo + hi + 1) \div 2) - 1)

\* The next decimal digit of a square root: s is the root so far, rem the
\* remainder n - s * s.
SqrtDigit(s, rem) ==
    CHOOSE d \in 0..9 :
        /\ 20 * s * d + d * d <= 100 * rem
        /\ d = 9 \/ 20 * s * (d + 1) + (d + 1) * (d + 1) > 100 * rem

\* Digits are added until the root has more than Prec of them; the result is
\* <<root, remainder, digits added>>.
RECURSIVE SqrtDigits(_, _, _)
SqrtNext(s, rem, j, d) ==
    SqrtDigits(10 * s + d, 100 * rem - (20 * s * d + d * d), j + 1)

SqrtDigits(s, rem, j) ==
    IF NumDigits(s) > Prec THEN <<s, rem, j>>
    ELSE SqrtNext(s, rem, j, SqrtDigit(s, rem))

FSqrtPack(e2, r) == FNorm(r[1], (e2 \div 2) - r[3], r[2] # 0)

FSqrtFrom(m2, e2, s0) == FSqrtPack(e2, SqrtDigits(s0, m2 - s0 * s0, 0))

\* sqrt(x) for x >= 0, correctly rounded; the exponent is made even first.
FSqrt(x) ==
    IF x.m = 0 THEN FZero
    ELSE FSqrtFrom(IF x.e % 2 = 0 THEN x.m ELSE x.m * 10,
                   IF x.e % 2 = 0 THEN x.e ELSE x.e - 1,
                   ISqrtIn(IF x.e % 2 = 0 THEN x.m ELSE x.m * 10, 0, 1000))

\* The integer nearest to x (ties to even), for |x| within the integer range.
FRound(x) ==
    IF x.e >= 0 THEN x.m * Pow10(x.e)
    ELSE IF -x.e > Prec THEN 0
    ELSE Sgn(x.m) * RoundDiv(Abs(x.m), Pow10(-x.e), FALSE)

\* ln(10) in two parts, the first short enough that n * Ln10Hi is exact.
Ln10Hi == Lit(23, -1)

Ln10Lo == Lit(2585093, -9)

Ln10 == Lit(230258509, -8)

\* 1 + r/1 * (1 + r/2 * (... (1 + r/k) ...)): the Taylor series of exp(r),
\* from the last term inwards; acc is the bracket inside.
RECURSIVE ExpSeries(_, _, _)
ExpSeries(r, k, acc) ==
    IF k = 0 THEN acc
    ELSE ExpSeries(r, k - 1, FAdd(One, FDiv(FMul(r, acc), FInt(k))))

FExpReduced(x, n) ==
    FShift(ExpSeries(FSub(FSub(x, FMul(FInt(n), Ln10Hi)), FMul(FInt(n), Ln10Lo)),
                     12, One), n)

\* math.exp: exp(x) = 10^n * exp(r) with x = n * ln(10) + r, |r| <= ln(10)/2.
FExp(x) == IF x.m = 0 THEN One ELSE FExpReduced(x, FRound(FDiv(x, Ln10)))

\* 1/(2i+1) + w/(2i+3) + ... + w^(j-i)/(2j+1), from the last term inwards.
RECURSIVE AtanhSeries(_, _, _, _)
AtanhSeries(w, i, j, acc) ==
    IF j < i THEN acc
    ELSE AtanhSeries(w, i, j - 1, FAdd(FDiv(One, FInt(2 * j + 1)), FMul(w, acc)))

FLogSeries(u, w, k) ==
    FAdd(FMul(Two, FAdd(u, FMul(FMul(u, w), AtanhSeries(w, 1, 9, FZero)))),
         FMul(FInt(k), Ln10))

FLogAtanh(u, k) == FLogSeries(u, FMul(u, u), k)

FLogMant(v, k) == FLogAtanh(FDiv(FSub(v, One), FAdd(v, One)), k)

\* math.log for x > 0: x = v * 10^k with v in [0.3, 3), and
\* ln(v) = 2 * atanh(u) = 2 * (u + u^3/3 + u^5/5 + ...), u = (v - 1) / (v + 1).
FLog(x) ==
    IF x.m >= 3 * Pow10(Prec - 1)
    THEN FLogMant([m |-> x.m, e |-> -Prec], x.e + Prec)
    ELSE FLogMant([m |-> x.m, e |-> -(Prec - 1)], x.e + (Prec - 1))

(***************************************************************************)
(* Outcomes of a call: a returned number or a raised exception.  sqrt of   *)
(* a negative number depends on the build: the interpreter raises          *)
(* ValueError (math domain error), the numba-compiled function carries on  *)
(* with NaN.  The functions take the build as their first argument.        *)
(***************************************************************************)
Builds == {"interpreter", "numba"}

Ret(v, branch) == [kind |-> "return", error |-> "", v |-> v, branch |-> branch]

Raise(err) == [kind |-> "raise", error |-> err, v |-> FZero, branch |-> ""]

NaN == [kind |-> "return", error |-> "", v |-> FZero, branch |-> "nan"]

IsNaN(o) == o.kind = "return" /\ o.branch = "nan"

ZeroDiv == Raise("ZeroDivisionError")

MathDomainError == Raise("ValueError: math domain error")

OptionTypeError == Raise("ValueError: option_type must be 'calls' or 'puts'.")

(***************************************************************************)
(* erf and normal_cdf                                                      *)
(***************************************************************************)
a1 == Lit(254829592, -9)

a2 == Lit(-284496736, -9)

a3 == Lit(1421413741, -9)

a4 == Lit(-1453152027, -9)

a5 == Lit(1061405429, -9)

p == Lit(3275911, -7)

\* sign = 1 if x >= 0 else -1, as a float
ErfSign(x) == IF FLe(FZero, x) THEN One ELSE FNeg(One)

\* ((((a5 * t + a4) * t) + a3) * t + a2) * t + a1
ErfPoly(t) ==
    FAdd(FMul(FAdd(FMul(FAdd(FMul(FAdd(FMul(a5, t), a4), t), a3), t), a2), t), a1)

\* sign * y with y = 1.0 - poly * t * exp(-x * x); x is what erf has
\* assigned to x by then.
ErfY(x, t) ==
    FMul(ErfSign(x), FSub(One, FMul(FMul(ErfPoly(t), t), FExp(FMul(FNeg(x), x)))))

\* The body of erf from t = 1.0 / (1.0 + p * x) on.
ErfOfAbs(x) == ErfY(x, FDiv(One, FAdd(One, FMul(p, x))))

\* x = abs(x) comes first, the sign is taken afterwards.
erf(x) == ErfOfAbs(FAbs(x))

normal_cdf(x) == FMul(Half, FAdd(One, erf(FDiv(x, FSqrt(Two)))))

(***************************************************************************)
(* d1 of Black-Scholes, as calculate_delta and the pricer compute it       *)
(***************************************************************************)
D1Quot(num, den) == IF den.m = 0 THEN ZeroDiv ELSE Ret(FDiv(num, den), "")

\* (log(S / K) + (r + 0.5 * sigma ** 2) * T) / (sigma * sqrt(T)), for S, K > 0
D1(build, S, K, T, r, sigma) ==
    IF T.m < 0 THEN (IF build = "interpreter" THEN MathDomainError ELSE NaN)
    ELSE D1Quot(FAdd(FLog(FDiv(S, K)),
                     FMul(FAdd(r, FMul(Half, FMul(sigma, sigma))), T)),
                FMul(sigma, FSqrt(T)))

\* Variant of DeltaOf: the put delta without its "- 1".
DeltaOfUnshifted(d1, option_type) ==
    IF d1.kind = "raise" THEN d1
    ELSE IF option_type \in {"calls", "puts"}
         THEN (IF IsNaN(d1) THEN NaN ELSE Ret(normal_cdf(d1.v), option_type))
    ELSE OptionTypeError

DeltaOf(d1, option_type) ==
    IF d1.kind = "raise" THEN d1
    ELSE IF option_type = "calls"
         THEN (IF IsNaN(d1) THEN NaN ELSE Ret(normal_cdf(d1.v), "calls"))
    ELSE IF option_type = "puts"
         THEN (IF IsNaN(d1) THEN NaN ELSE Ret(FSub(normal_cdf(d1.v), One), "puts"))
    ELSE OptionTypeError

calculate_delta(build, S, K, T, r, sigma, option_type) ==
    DeltaOf(D1(build, S, K, T, r, sigma), option_type)

(***************************************************************************)
(* The Barone-Adesi-Whaley pricer                                          *)
(***************************************************************************)
\* x ** y.  A negative base with a fractional exponent has no real value:
\* the interpreter yields a complex number, the compiled build NaN.
FPow(x, y) ==
    IF y.m = 0 THEN Ret(One, "")
    ELSE IF x.m > 0 THEN Ret(FExp(FMul(y, FLog(x))), "")
    ELSE IF x.m = 0 THEN (IF y.m < 0 THEN ZeroDiv ELSE Ret(FZero, ""))
    ELSE NaN

\* Variant of Q2Root: the other root of the quadratic, with + sqrt.
Q2RootPlus(M, nm1) ==
    FDiv(FAdd(FNeg(nm1), FSqrt(FAdd(FMul(nm1, nm1), FMul(FInt(4), M)))), Two)

\* q2 from M and n - 1
Q2Root(M, nm1) ==
    FDiv(FSub(FNeg(nm1), FSqrt(FAdd(FMul(nm1, nm1), FMul(FInt(4), M)))), Two)

\* M = 2 * r / sigma ** 2 and n = 2 * (r - 0.5 * sigma ** 2) / sigma ** 2
Q2From(r, sig2) ==
    Q2Root(FDiv(FMul(Two, r), sig2),
           FSub(FDiv(FMul(Two, FSub(r, FMul(Half, sig2))), sig2), One))

\* q2 = (-(n - 1) - sqrt((n - 1) ** 2 + 4 * M)) / 2, for sigma # 0
Q2(r, sigma) == Q2From(r, FMul(sigma, sigma))

SCriticalQuot(K, den) == IF den.m = 0 THEN ZeroDiv ELSE Ret(FDiv(K, den), "")

\* S_critical = K / (1 - 1 / q2)
SCritical(K, q2) ==
    IF q2.m = 0 THEN ZeroDiv ELSE SCriticalQuot(K, FSub(One, FDiv(One, q2)))

PremiumOf(BAW, gap, pw1, pw2) ==
    IF pw1.kind = "raise" THEN pw1
    ELSE IF pw2.kind = "raise" THEN pw2
    ELSE IF IsNaN(BAW) \/ IsNaN(pw1) \/ IsNaN(pw2) THEN NaN
    ELSE Ret(FAdd(BAW.v, FMul(FMul(gap, pw1.v), pw2.v)), "premium")

\* BAW + A2 * (S / S_critical) ** q2, with A2 = gap * (S_critical ** -q2)
Premium(BAW, gap, S, sc, q2) ==
    PremiumOf(BAW, gap, FPow(sc, FNeg(q2)), FPow(FDiv(S, sc), q2))

\* d2 = d1 - sigma * sqrt(T)
D2(d1, T, sigma) == FSub(d1, FMul(sigma, FSqrt(T)))

\* K * exp(-r * T)
Discounted(K, T, r) == FMul(K, FExp(FMul(FNeg(r), T)))

\* S * normal_cdf(d1) - K * exp(-r * T) * normal_cdf(d2)
EuropeanCall(S, disc, d1, d2) ==
    Ret(FSub(FMul(S, normal_cdf(d1)), FMul(disc, normal_cdf(d2))), "european")

\* K * exp(-r * T) * normal_cdf(-d2) - S * normal_cdf(-d1)
EuropeanPut(S, disc, d1, d2) ==
    Ret(FSub(FMul(disc, normal_cdf(FNeg(d2))), FMul(S, normal_cdf(FNeg(d1)))),
        "european")

CallExercise(BAW, S, K, q2, sc) ==
    IF sc.kind = "raise" THEN sc
    ELSE IF FLe(sc.v, S) THEN Ret(FSub(S, K), "intrinsic")
    ELSE Premium(BAW, FSub(sc.v, K), S, sc.v, q2)

PutExercise(BAW, S, K, q2, sc) ==
    IF sc.kind = "raise" THEN sc
    ELSE IF FLe(S, sc.v) THEN Ret(FSub(K, S), "intrinsic")
    ELSE Premium(BAW, FSub(K, sc.v), S, sc.v, q2)

\* The branch for calls, from "if q2 < 0: return BAW" on.
CallValue(BAW, S, K, q2) ==
    IF q2.m < 0 THEN BAW ELSE CallExercise(BAW, S, K, q2, SCritical(K, q2))

PutValue(BAW, S, K, q2) ==
    IF q2.m < 0 THEN BAW ELSE PutExercise(BAW, S, K, q2, SCritical(K, q2))

\* The pricer once q2 and d1 are computed.
PriceOf(S, K, T, r, sigma, option_type, q2, d1) ==
    IF d1.kind = "raise" THEN d1
    ELSE IF option_type = "calls"
         THEN CallValue(IF IsNaN(d1) THEN NaN
                        ELSE EuropeanCall(S, Discounted(K, T, r), d1.v,
                                          D2(d1.v, T, sigma)),
                        S, K, q2)
    ELSE IF option_type = "puts"
         THEN PutValue(IF IsNaN(d1) THEN NaN
                       ELSE EuropeanPut(S, Discounted(K, T, r), d1.v,
                                        D2(d1.v, T, sigma)),
                       S, K, q2)
    ELSE OptionTypeError

barone_adesi_whaley_american_option_price(build, S, K, T, r, sigma, option_type) ==
    IF sigma.m = 0 THEN ZeroDiv
    ELSE PriceOf(S, K, T, r, sigma, option_type, Q2(r, sigma),
                 D1(build, S, K, T, r, sigma))

(***************************************************************************)
(* calculate_theta                                                         *)
(***************************************************************************)
ThetaH == Lit(1, -5)

\* Variant of ThetaStep: h = 1e-5 without the clamp.
ThetaStepUnclamped(T) == ThetaH

\* The step of the central difference: h = 1e-5, or T / 2 when T <= h.
ThetaStep(T) == IF FLe(T, ThetaH) THEN FDiv(T, Two) ELSE ThetaH

\* theta = -(price_plus - price_minus) / (2 * h)
ThetaQuot(price_plus, price_minus, den) ==
    IF price_plus.kind = "raise" THEN price_plus
    ELSE IF price_minus.kind = "raise" THEN price_minus
    ELSE IF den.m = 0 THEN ZeroDiv
    ELSE IF IsNaN(price_plus) \/ IsNaN(price_minus) THEN NaN
    ELSE Ret(FNeg(FDiv(FSub(price_plus.v, price_minus.v), den)), "theta")

ThetaOf(build, S, K, T, r, sigma, option_type, h) ==
    ThetaQuot(barone_adesi_whaley_american_option_price(
                  build, S, K, FAdd(T, h), r, sigma, option_type),
              barone_adesi_whaley_american_option_price(
                  build, S, K, FSub(T, h), r, sigma, option_type),
              FMul(Two, h))

calculate_theta(build, S, K, T, r, sigma, option_type) ==
    ThetaOf(build, S, K, T, r, sigma, option_type, ThetaStep(T))

(***************************************************************************)
(* State                                                                   *)
(***************************************************************************)
VARIABLES
    mpc,        \* "idle", or "done" once a pure function of models.py was called
    fn,         \* the function called ("" when idle)
    args,       \* its arguments
    out,        \* its outcome
    spc,        \* the solver: "idle", "loop" (at the head of its for loop), "done"
    call,       \* the arguments of the running call of the solver
    lower_vol,
    upper_vol,
    mid_vol,
    it,         \* iterations of the for loop completed
    result,     \* what the solver returned or raised
    met,        \* history: the return was the one inside the loop (line 248)
    lowered,    \* history: some iteration of this call has set upper_vol = mid_vol
    doubled,    \* history: the last iteration doubled upper_vol
    prev,       \* the result the caller kept from the call before, with its met
    hpc,        \* the hedging loop: "poll", "hedge" (in the loop of line 116), "stopped"
    stocks,     \* per underlying: quantity and direction of the shares held
    options,    \* per underlying: its option positions, priced (<<>>: not a key)
    todo,       \* the underlyings the loop of line 116 has still to visit
    printed,    \* what the cycle has printed per underlying (lines 129-132)
    orders      \* the orders the cycle has passed to place_order

mathVars == <<mpc, fn, args, out>>

solverVars == <<spc, call, lower_vol, upper_vol, mid_vol, it, result, met, lowered,
                doubled, prev>>

hedgeVars == <<hpc, stocks, options, todo, printed, orders>>

vars == <<mathVars, solverVars, hedgeVars>>

(***************************************************************************)
(* Calls of the pure functions, on arguments from bounded sets             *)
(***************************************************************************)
\* Arguments of erf and normal_cdf: -3.0, -2.9, ..., 3.0
MaxX == 30

Xs == {Lit(k, -1) : k \in -MaxX..MaxX}

Spots == {FInt(90), FInt(100), Lit(1005, -1), FInt(110)}

Strikes == {FInt(100)}

Expiries == {Lit(-5, -1), FZero, Lit(5, -6), Lit(1, -5), Lit(2, -5), Lit(5, -1)}

Rates == {Lit(-5, -2), FZero, Lit(5, -2)}

Vols == {Lit(-2, -1), FZero, Lit(2, -1), Two}

OptionTypes == {"calls", "puts", "straddle"}

NoArgs == [build |-> "", x |-> FZero, S |-> FZero, K |-> FZero, T |-> FZero,
           r |-> FZero, sigma |-> FZero, option_type |-> ""]

OptionArgs == {[NoArgs EXCEPT !.build = b, !.S = S, !.K = K, !.T = T, !.r = r,
                              !.sigma = sg, !.option_type = ot] :
                  b \in Builds, S \in Spots, K \in Strikes, T \in Expiries,
                  r \in Rates, sg \in Vols, ot \in OptionTypes}

NoCall == [curve |-> [kind |-> "none"], option_price |-> 0, max_iterations |-> 0,
           tolerance |-> 0]

NoResult == [kind |-> "none", v |-> 0]

NoPrev == [kind |-> "none", v |-> 0, met |-> FALSE]

\* No call of the solver is running.
SolverIdle ==
    /\ spc = "idle"
    /\ call = NoCall
    /\ lower_vol = 0
    /\ upper_vol = 0
    /\ mid_vol = 0
    /\ it = 0
    /\ result = NoResult
    /\ met = FALSE
    /\ lowered = FALSE
    /\ doubled = FALSE
    /\ prev = NoPrev

Underlyings == {"AAA", "BBB"}

NoStock == [quantity |-> 0, direction |-> 1]

\* The loop is about to fetch the positions (line 66) with stocks = {} and
\* options = {}.
HedgeIdle ==
    /\ hpc = "poll"
    /\ stocks = [u \in Underlyings |-> NoStock]
    /\ options = [u \in Underlyings |-> <<>>]
    /\ todo = <<>>
    /\ printed = <<>>
    /\ orders = <<>>

MathInit ==
    /\ mpc = "idle"
    /\ fn = ""
    /\ args = NoArgs
    /\ out = Ret(FZero, "")

Init == MathInit /\ SolverIdle /\ HedgeIdle

CallErf ==
    \E x \in Xs :
        /\ mpc = "idle"
        /\ mpc' = "done"
        /\ fn' = "erf"
        /\ args' = [NoArgs EXCEPT !.x = x]
        /\ out' = Ret(erf(x), "")
        /\ UNCHANGED <<solverVars, hedgeVars>>

CallNormalCdf ==
    \E x \in Xs :
        /\ mpc = "idle"
        /\ mpc' = "done"
        /\ fn' = "normal_cdf"
        /\ args' = [NoArgs EXCEPT !.x = x]
        /\ out' = Ret(normal_cdf(x), "")
        /\ UNCHANGED <<solverVars, hedgeVars>>

CallDelta ==
    \E a \in OptionArgs :
        /\ mpc = "idle"
        /\ mpc' = "done"
        /\ fn' = "calculate_delta"
        /\ args' = a
        /\ out' = calculate_delta(a.build, a.S, a.K, a.T, a.r, a.sigma, a.option_type)
        /\ UNCHANGED <<solverVars, hedgeVars>>

CallPrice ==
    \E a \in OptionArgs :
        /\ mpc = "idle"
        /\ mpc' = "done"
        /\ fn' = "price"
        /\ args' = a
        /\ out' = barone_adesi_whaley_american_option_price(
                      a.build, a.S, a.K, a.T, a.r, a.sigma, a.option_type)
        /\ UNCHANGED <<solverVars, hedgeVars>>

CallTheta ==
    \E a \in OptionArgs :
        /\ mpc = "idle"
        /\ mpc' = "done"
        /\ fn' = "calculate_theta"
        /\ args' = a
        /\ out' = calculate_theta(a.build, a.S, a.K, a.T, a.r, a.sigma, a.option_type)
        /\ UNCHANGED <<solverVars, hedgeVars>>

\* The caller takes the result; the next call starts afresh.
MathReturn ==
    /\ mpc = "done"
    /\ mpc' = "idle"
    /\ fn' = ""
    /\ args' = NoArgs
    /\ out' = Ret(FZero, "")
    /\ UNCHANGED <<solverVars, hedgeVars>>

MathNext ==
    CallErf \/ CallNormalCdf \/ CallDelta \/ CallPrice \/ CallTheta \/ MathReturn

SpecMath == Init /\ [][MathNext]_vars

(***************************************************************************)
(* Properties of the pure functions, checked under SpecMath                *)
(***************************************************************************)
ErfCalled == mpc = "done" /\ fn = "erf"

NormalCdfCalled == mpc = "done" /\ fn = "normal_cdf"

PriceCalled == mpc = "done" /\ fn = "price"

\* |x - y| <= tol
FNear(x, y, tol) == FLe(FAbs(FSub(x, y)), tol)

\* Rounding allowance for an identity between two computed results.
CdfTol == Lit(2, -3)

\* C1: erf returns a result sign-matched to its input: erf(-x) = -erf(x), so
\* erf(x) <= 0 for every x < 0; consequently normal_cdf(x) <= 0.5 for every
\* x < 0 and normal_cdf(-x) = 1 - normal_cdf(x) (up to rounding).
C1_ErfSignMatched ==
    /\ ErfCalled =>
          /\ erf(FNeg(args.x)) = FNeg(out.v)
          /\ args.x.m < 0 => out.v.m <= 0
    /\ NormalCdfCalled =>
          /\ args.x.m < 0 => FLe(out.v, Half)
          /\ FNear(normal_cdf(FNeg(args.x)), FSub(One, out.v), CdfTol)

InvalidPriceArgs ==
    \/ args.option_type \notin {"calls", "puts"}
    \/ args.sigma.m <= 0
    \/ args.T.m <= 0

\* C2: the pricer fails, and returns no price, for every call in which
\* option_type is neither 'calls' nor 'puts', or volatility <= 0, or
\* time_to_expiry <= 0 (any exception is taken for the failure here); for an
\* invalid option_type the outcome is the option_type error whatever the
\* other arguments are.
C2_PricerRejectsInvalidInput ==
    PriceCalled =>
        /\ InvalidPriceArgs => out.kind = "raise"
        /\ args.option_type \notin {"calls", "puts"} => out = OptionTypeError

DeltaCalled == mpc = "done" /\ fn = "calculate_delta"

ThetaCalled == mpc = "done" /\ fn = "calculate_theta"

\* S > 0, K > 0, T > 0, sigma > 0, any r
ValidArgs == args.S.m > 0 /\ args.K.m > 0 /\ args.T.m > 0 /\ args.sigma.m > 0

Returned == out.kind = "return" /\ ~IsNaN(out)

\* C5: for all valid inputs calculate_delta returns a value in [0, 1] for
\* 'calls' and a value in [-1, 0] for 'puts'; any other option_type raises an
\* error instead of returning a delta.
C5_DeltaRange ==
    DeltaCalled =>
        /\ ValidArgs /\ args.option_type = "calls" =>
              Returned /\ FLe(FZero, out.v) /\ FLe(out.v, One)
        /\ ValidArgs /\ args.option_type = "puts" =>
              Returned /\ FLe(FNeg(One), out.v) /\ FLe(out.v, FZero)
        /\ args.option_type \notin {"calls", "puts"} => out.kind = "raise"

\* A put delta strictly inside (-1, 0) was returned for valid inputs.
C5_Witness ==
    /\ DeltaCalled /\ ValidArgs /\ args.option_type = "puts"
    /\ Returned /\ FLt(FNeg(One), out.v) /\ FLt(out.v, FZero)

\* The step the claim states: 1e-5 when T > 1e-5, T / 2 when T <= 1e-5.
ClaimedStep(T) == IF FLt(Lit(1, -5), T) THEN Lit(1, -5) ELSE FDiv(T, Two)

\* The negated central difference of the pricer over T + h and T - h.
CentralDifference(a, h) ==
    ThetaQuot(barone_adesi_whaley_american_option_price(
                  a.build, a.S, a.K, FAdd(a.T, h), a.r, a.sigma, a.option_type),
              barone_adesi_whaley_american_option_price(
                  a.build, a.S, a.K, FSub(a.T, h), a.r, a.sigma, a.option_type),
              FMul(Two, h))

GridPerTol == 10000

\* lower_vol = 0.0001
LowerVol0 == 1

\* upper_vol = 2.0
UpperVol0 == 20000

DefaultMaxIterations == 100

\* tolerance = 1e-8
DefaultTolerance == 1

\* x < tolerance, for x on the grid: x * GridPerTol < tolerance
Below(x, tolerance) == x < (tolerance + GridPerTol - 1) \div GridPerTol

\* s / 2 on the grid, a tie rounded to even as the float division rounds.
HalfEven(s) == IF s % 2 = 0 \/ (s \div 2) % 2 = 0 THEN s \div 2 ELSE (s \div 2) + 1

\* Variant of MidVol: the sum of the two bounds, not halved.
MidVolUnhalved(lower, upper) == lower + upper

\* mid_vol = (lower_vol + upper_vol) / 2
MidVol(lower, upper) == HalfEven(lower + upper)

Clamp(x, lo, hi) == IF x < lo THEN lo ELSE IF x > hi THEN hi ELSE x

\* The price the pricer returns for a volatility: c.base up to c.from, then
\* rising by c.slope per unit up to c.to, then level or, for c.down = 1,
\* falling back at the same rate (the pricer is not monotone where a
\* negative d1 or d2 meets the sign of erf).
PriceAt(c, vol) ==
    c.base + c.slope * (Clamp(vol, c.from, c.to) - c.from)
           - c.down * c.slope * (Clamp(vol, c.to, 2 * c.to - c.from) - c.to)

\* abs(price - option_price) < tolerance
Met(price, option_price, tolerance) == Below(Abs(price - option_price), tolerance)

\* Variant of UpperAfter: the comparison of the two prices the other way round.
UpperAfterSwapped(price, option_price, upper, mid) ==
    IF price > option_price THEN upper ELSE mid

\* upper_vol after "if price > option_price: upper_vol = mid_vol"
UpperAfter(price, option_price, upper, mid) ==
    IF price > option_price THEN mid ELSE upper

\* lower_vol after "else: lower_vol = mid_vol"
LowerAfter(price, option_price, lower, mid) ==
    IF price > option_price THEN lower ELSE mid

\* upper_vol - lower_vol < tolerance and upper_vol >= 2.0
Collapsed(lower, upper, tolerance) ==
    Below(upper - lower, tolerance) /\ upper >= UpperVol0

(***************************************************************************)
(* Calls of the solver                                                     *)
(***************************************************************************)
Curve(base, slope, from, to, down) ==
    [kind |-> "price", base |-> base, slope |-> slope, from |-> from, to |-> to,
     down |-> down]

\* Largest volatility of a curve's rising part.
FarVol == 10000000

\* A deep in-the-money option: the same price at every volatility.
FlatCurve == Curve(1000000, 0, 0, FarVol, 0)

\* With r = 0 the pricer raises ZeroDivisionError at every volatility.
FailingCurve == [FlatCurve EXCEPT !.kind = "raise"]

Curves ==
    {FlatCurve, FailingCurve,
     Curve(100000, 1, 0, FarVol, 0),
     Curve(100000, 5, 0, FarVol, 0),
     Curve(100000, 2, 5000, 30000, 0),
     Curve(100000, 2, 0, 8000, 1)}

\* Volatilities whose price is taken for the observed price: 0.01, 0.3,
\* 1.2345, 1.5 and, above the first bracket, 2.1
Sigma0s == {100, 3000, 12345, 15000, 21000}

\* An observed price above every price of every curve.
HighPrice == 2000000000

\* Observed prices for a curve: the price of a volatility, a price between
\* those of two neighbouring volatilities, and prices out of the curve's range.
OptionPrices(c) ==
    {PriceAt(c, s0) + d : s0 \in Sigma0s, d \in {0, 2}} \cup {0, HighPrice}

\* 1e-8, 2e-4 and 8e-4
Tolerances == {DefaultTolerance, 20000, 80000}

MaxIterations == {1, 2, 30, DefaultMaxIterations}

Calls ==
    UNION {[curve : {c}, option_price : OptionPrices(c),
            max_iterations : MaxIterations, tolerance : Tolerances] : c \in Curves}

\* The function is entered: lines 240-241.
Enter(c) ==
    /\ spc' = "loop"
    /\ call' = c
    /\ lower_vol' = LowerVol0
    /\ upper_vol' = UpperVol0
    /\ mid_vol' = 0
    /\ it' = 0
    /\ result' = NoResult
    /\ met' = FALSE
    /\ lowered' = FALSE
    /\ doubled' = FALSE

SolverCall ==
    \E c \in Calls :
        /\ spc = "idle"
        /\ Enter(c)
        /\ UNCHANGED <<prev, mathVars, hedgeVars>>

\* An iteration in which the pricer raises: the exception leaves the solver.
PricerRaises ==
    /\ spc = "loop" /\ it < call.max_iterations
    /\ call.curve.kind = "raise"
    /\ spc' = "done"
    /\ mid_vol' = MidVol(lower_vol, upper_vol)
    /\ result' = [kind |-> "raise", v |-> 0]
    /\ UNCHANGED <<call, lower_vol, upper_vol, it, met, lowered, doubled, prev, mathVars, hedgeVars>>

\* An iteration that meets the tolerance: return mid_vol (line 248).
ReturnMet ==
    /\ spc = "loop" /\ it < call.max_iterations
    /\ call.curve.kind = "price"
    /\ Met(PriceAt(call.curve, MidVol(lower_vol, upper_vol)), call.option_price,
           call.tolerance)
    /\ spc' = "done"
    /\ mid_vol' = MidVol(lower_vol, upper_vol)
    /\ result' = [kind |-> "return", v |-> MidVol(lower_vol, upper_vol)]
    /\ met' = TRUE
    /\ UNCHANGED <<call, lower_vol, upper_vol, it, lowered, doubled, prev, mathVars, hedgeVars>>

\* The bracket after lines 250-256, from the bracket after lines 250-253.
Rebracket(lower, upper) ==
    /\ lower_vol' = lower
    /\ doubled' = Collapsed(lower, upper, call.tolerance)
    /\ upper_vol' = IF Collapsed(lower, upper, call.tolerance) THEN 2 * upper ELSE upper

\* An iteration that does not meet the tolerance: lines 244-256.
Narrow ==
    /\ spc = "loop" /\ it < call.max_iterations
    /\ call.curve.kind = "price"
    /\ ~Met(PriceAt(call.curve, MidVol(lower_vol, upper_vol)), call.option_price,
            call.tolerance)
    /\ mid_vol' = MidVol(lower_vol, upper_vol)
    /\ Rebracket(LowerAfter(PriceAt(call.curve, mid_vol'), call.option_price,
                            lower_vol, mid_vol'),
                 UpperAfter(PriceAt(call.curve, mid_vol'), call.option_price,
                            upper_vol, mid_vol'))
    /\ lowered' = (lowered \/ PriceAt(call.curve, mid_vol') > call.option_price)
    /\ it' = it + 1
    /\ UNCHANGED <<spc, call, result, met, prev, mathVars, hedgeVars>>

\* The loop is exhausted: return mid_vol (line 258).
ReturnLast ==
    /\ spc = "loop" /\ it = call.max_iterations
    /\ spc' = "done"
    /\ result' = [kind |-> "return", v |-> mid_vol]
    /\ UNCHANGED <<call, lower_vol, upper_vol, mid_vol, it, met, lowered, doubled,
                   prev, mathVars, hedgeVars>>

\* The caller has taken the result.
SolverReturn ==
    /\ spc = "done"
    /\ spc' = "idle"
    /\ call' = NoCall
    /\ lower_vol' = 0
    /\ upper_vol' = 0
    /\ mid_vol' = 0
    /\ it' = 0
    /\ result' = NoResult
    /\ met' = FALSE
    /\ lowered' = FALSE
    /\ doubled' = FALSE
    /\ prev' = NoPrev
    /\ UNCHANGED <<mathVars, hedgeVars>>

SolverNext ==
    SolverCall \/ PricerRaises \/ ReturnMet \/ Narrow \/ ReturnLast \/ SolverReturn

SpecSolver == Init /\ [][SolverNext]_vars

(***************************************************************************)
(* A caller that keeps the result of one call and calls again, as the      *)
(* hedging loop does in every cycle (src/app.py line 111)                  *)
(***************************************************************************)
\* Calls of at most this many iterations are followed up by a second call.
ShortIterations == 2

ShortCalls == {c \in Calls : c.max_iterations <= ShortIterations}

ShortCall ==
    \E c \in ShortCalls :
        /\ spc = "idle"
        /\ Enter(c)
        /\ UNCHANGED <<prev, mathVars, hedgeVars>>

\* The caller keeps the volatility it was returned and calls again.
CallAgain ==
    \E c \in ShortCalls :
        /\ spc = "done" /\ result.kind = "return" /\ prev = NoPrev
        /\ prev' = [kind |-> "return", v |-> result.v, met |-> met]
        /\ Enter(c)
        /\ UNCHANGED <<mathVars, hedgeVars>>

RepeatNext ==
    ShortCall \/ CallAgain \/ PricerRaises \/ ReturnMet \/ Narrow \/ ReturnLast
        \/ SolverReturn

SpecRepeat == Init /\ [][RepeatNext]_vars

(***************************************************************************)
(* Properties of the solver                                                *)
(***************************************************************************)
Returned2 == spc = "done" /\ result.kind = "return"

\* C3: when the solver exhausts max_iterations without meeting the
\* tolerance, its result tells the caller that it did not converge, so a
\* caller can always distinguish a converged result from an unconverged one.
\* The result is the returned volatility, so two calls that return the same
\* volatility must both have met the tolerance or both have exhausted the
\* loop.
C3_ResultTellsConvergence ==
    Returned2 /\ prev.kind = "return" /\ result.v = prev.v => met = prev.met

Defaults ==
    call.max_iterations = DefaultMaxIterations /\ call.tolerance = DefaultTolerance

\* The solver has returned for the observed price p = price(s0), s0 in [0.01, 1.5].
RoundTrip(s0) ==
    /\ spc = "done" /\ call.curve.kind = "price"
    /\ s0 >= 100 /\ s0 <= 15000
    /\ call.option_price = PriceAt(call.curve, s0)

\* The curve never falls as the volatility grows.
NonDecreasing(c) == c.slope >= 0 /\ (c.down = 0 \/ c.slope = 0)

\* The result is within 1e-4 of s0.
Within(s0) == result.kind = "return" /\ Abs(result.v - s0) <= 1

\* C4: round trip of the solver: for every s0 in [0.01, 1.5], with
\* p = price(s0) and a price that is non-decreasing in the volatility, the
\* solver with the defaults (max_iterations = 100, tolerance = 1e-8) returns
\* a volatility within 1e-4 of s0.
C4_RoundTrip ==
    \A s0 \in Sigma0s :
        RoundTrip(s0) /\ Defaults /\ NonDecreasing(call.curve) => Within(s0)

\* The price differs from p = price(s0) by the tolerance or more at the
\* volatilities 1e-4 below and above s0 (and so, the curve being
\* non-decreasing, at every volatility 1e-4 or more away from s0).
Separated(c, s0, tolerance) ==
    /\ ~Met(PriceAt(c, s0 - 1), PriceAt(c, s0), tolerance)
    /\ ~Met(PriceAt(c, s0 + 1), PriceAt(c, s0), tolerance)

\* C4, amended: the round trip holds when moreover the price differs from p
\* by at least the tolerance at every volatility 1e-4 or more away from s0.
C4_RoundTripSeparated ==
    \A s0 \in Sigma0s :
        RoundTrip(s0) /\ Defaults /\ NonDecreasing(call.curve)
            /\ Separated(call.curve, s0, call.tolerance) => Within(s0)

\* A round trip with the defaults on a rising curve has met the tolerance,
\* after narrowing the bracket from both sides.
C4_Witness ==
    /\ RoundTrip(12345) /\ Defaults /\ NonDecreasing(call.curve)
    /\ Separated(call.curve, 12345, call.tolerance)
    /\ met /\ lowered /\ lower_vol > LowerVol0 /\ Within(12345)

\* C7: upper_vol is doubled only while it is still pinned at the original
\* upper bound: an iteration doubles it only if no earlier iteration of the
\* call has set upper_vol = mid_vol.
C7_DoubledOnlyWhilePinned ==
    [][it' = it + 1 /\ doubled' => ~lowered]_vars

(***************************************************************************)
(* The solver with a pricer that may answer anything: in every iteration   *)
(* the pricer raises, returns NaN (numba build, T < 0) or returns a price  *)
(* below, near, at or above the observed one, whatever it answered before. *)
(***************************************************************************)
\* Calls with a free pricer run at most this many iterations.
AnyIterations == 14

AnyCurve == [kind |-> "any"]

\* What barone_adesi_whaley_american_option_price may hand back (line 245).
PricerResults(option_price) ==
    {[kind |-> "raise", v |-> 0], [kind |-> "nan", v |-> 0]}
        \cup {[kind |-> "price", v |-> option_price + d] :
                 d \in {-100000, -10, 0, 10, 100000}}

\* The tolerances above and 3.0, which is wider than the first bracket.
AnyCall ==
    \E max_iterations \in {1, AnyIterations},
       tolerance \in Tolerances \cup {30000 * GridPerTol} :
        /\ spc = "idle"
        /\ Enter([curve |-> AnyCurve, option_price |-> FlatCurve.base,
                  max_iterations |-> max_iterations, tolerance |-> tolerance])
        /\ UNCHANGED <<prev, mathVars, hedgeVars>>

\* An iteration in which the pricer raises (line 245).
AnyRaises ==
    /\ spc = "loop" /\ it < call.max_iterations
    /\ call.curve = AnyCurve
    /\ \E res \in PricerResults(call.option_price) : res.kind = "raise"
    /\ spc' = "done"
    /\ mid_vol' = MidVol(lower_vol, upper_vol)
    /\ result' = [kind |-> "raise", v |-> 0]
    /\ UNCHANGED <<call, lower_vol, upper_vol, it, met, lowered, doubled, prev,
                   mathVars, hedgeVars>>

\* An iteration whose price meets the tolerance (lines 244-248).
AnyMet ==
    /\ spc = "loop" /\ it < call.max_iterations
    /\ call.curve = AnyCurve
    /\ \E res \in PricerResults(call.option_price) :
        /\ res.kind = "price"
        /\ Met(res.v, call.option_price, call.tolerance)
    /\ spc' = "done"
    /\ mid_vol' = MidVol(lower_vol, upper_vol)
    /\ result' = [kind |-> "return", v |-> MidVol(lower_vol, upper_vol)]
    /\ met' = TRUE
    /\ UNCHANGED <<call, lower_vol, upper_vol, it, lowered, doubled, prev,
                   mathVars, hedgeVars>>

\* An iteration whose price does not meet the tolerance (lines 244-256); a
\* NaN is neither within the tolerance nor above the observed price.
AnyNarrow ==
    /\ spc = "loop" /\ it < call.max_iterations
    /\ call.curve = AnyCurve
    /\ mid_vol' = MidVol(lower_vol, upper_vol)
    /\ \E res \in PricerResults(call.option_price) :
        \/ /\ res.kind = "nan"
           /\ Rebracket(mid_vol', upper_vol)
           /\ UNCHANGED lowered
        \/ /\ res.kind = "price"
           /\ ~Met(res.v, call.option_price, call.tolerance)
           /\ Rebracket(LowerAfter(res.v, call.option_price, lower_vol, mid_vol'),
                        UpperAfter(res.v, call.option_price, upper_vol, mid_vol'))
           /\ lowered' = (lowered \/ res.v > call.option_price)
    /\ it' = it + 1
    /\ UNCHANGED <<spc, call, result, met, prev, mathVars, hedgeVars>>

AnyNext == AnyCall \/ AnyRaises \/ AnyMet \/ AnyNarrow \/ ReturnLast \/ SolverReturn

SpecAnyPricer == Init /\ [][AnyNext]_vars

(***************************************************************************)
(* The hedging loop of src/app.py (lines 62-175).  One cycle fetches the   *)
(* positions, prices every option position (implied volatility from the    *)
(* solver, delta from calculate_delta), then visits the underlyings that   *)
(* have option positions and, per underlying, submits the hedge order.     *)
(* A delta is a multiple of 1 / DeltaGrid, a volatility a multiple of      *)
(* 0.0001 as in the solver above.                                          *)
(***************************************************************************)
DeltaGrid == 200

\* option["sigma"] <= 0.005
SigmaFloor == 50

Option(delta, quantity, direction, sigma) ==
    [delta |-> delta, nan |-> FALSE, quantity |-> quantity,
     direction |-> direction, sigma |-> sigma]

\* An option whose time to expiration is negative, numba build: its delta
\* is NaN.
NaNOption(quantity, direction, sigma) ==
    [delta |-> 0, nan |-> TRUE, quantity |-> quantity,
     direction |-> direction, sigma |-> sigma]

\* position_parsed of lines 94-113: long 1 at delta 0.505, long 2 at -0.305
\* with sigma just above the floor, short 2 at 0.505 with sigma on the floor,
\* long 1 at delta 1 with sigma = lower_vol, and an expired one.
OptionRecs ==
    { Option(101, 1, 1, 3000), Option(-61, 2, 1, SigmaFloor + 1),
      Option(101, 2, -1, SigmaFloor), Option(200, 1, 1, LowerVol0),
      NaNOption(1, 1, UpperVol0) }

MaxOptions == 2

OptionLists == UNION { [1..n -> OptionRecs] : n \in 0..MaxOptions }

Stock(quantity, direction) == [quantity |-> quantity, direction |-> direction]

\* stocks[underlying] of lines 71-75 and 88-92.
Stocks == { NoStock, Stock(50, -1), Stock(30, 1) }

InSeq(x, sq) == \E i \in 1..Len(sq) : sq[i] = x

\* The keys of options: the underlyings with an option position.
Keys(opts) == { u \in Underlyings : opts[u] # <<>> }

\* An order in which "for underlying_symbol in options" visits the keys.
IsOrderOf(sq, keys) ==
    /\ Len(sq) = Cardinality(keys)
    /\ \A u \in keys : InSeq(u, sq)

KeyOrders == UNION { [1..n -> Underlyings] : n \in 0..Cardinality(Underlyings) }

HasNaN(opts) == \E i \in 1..Len(opts) : opts[i].nan

\* total_deltas += (option["delta"] * option["quantity"]) * option["direction"]
RECURSIVE SumDeltas(_)
SumDeltas(opts) ==
    IF opts = <<>> THEN 0
    ELSE (opts[1].delta * opts[1].quantity) * opts[1].direction
         + SumDeltas(Tail(opts))

\* round(x) of an x = n / d: to the nearest integer, a tie to the even one.
Round(n, d) == Sgn(n) * RoundDiv(Abs(n), d, FALSE)

\* total_deltas = round(total_deltas * 100)
TotalDeltas(opts) == Round(SumDeltas(opts) * 100, DeltaGrid)

TotalShares(stock) == stock.quantity * stock.direction

SuppressedBelow(opts) == \E i \in 1..Len(opts) : opts[i].sigma < SigmaFloor

\* Lines 125-126: an option of the underlying has sigma <= 0.005.
Suppressed(opts) == \E i \in 1..Len(opts) : opts[i].sigma <= SigmaFloor

\* Lines 123-127: delta_imbalance = total_deltas + total_shares, then 0 when
\* an option of the underlying has sigma <= 0.005.
DeltaImbalance(opts, stock) ==
    IF Suppressed(opts) THEN 0 ELSE TotalDeltas(opts) + TotalShares(stock)

\* The lines 129-132 print.
Line(symbol, opts, stock) ==
    [symbol |-> symbol, total_shares |-> TotalShares(stock),
     total_deltas |-> TotalDeltas(opts),
     delta_imbalance |-> DeltaImbalance(opts, stock)]

Order(symbol, action, quantity, price_effect) ==
    [symbol |-> symbol, action |-> action, quantity |-> quantity,
     order_type |-> "MARKET", time_in_force |-> "DAY",
     price_effect |-> price_effect]

OrderForUnnegated(symbol, delta_imbalance) ==
    IF delta_imbalance > 0
    THEN Order(symbol, "SELL_TO_OPEN", delta_imbalance, "CREDIT")
    ELSE Order(symbol, "BUY_TO_OPEN", delta_imbalance, "DEBIT")

\* Lines 135-146 and 153-164: the order of a delta_imbalance other than 0.
OrderFor(symbol, delta_imbalance) ==
    IF delta_imbalance > 0
    THEN Order(symbol, "SELL_TO_OPEN", delta_imbalance, "CREDIT")
    ELSE Order(symbol, "BUY_TO_OPEN", -1 * delta_imbalance, "DEBIT")

Submitted(order, outcome) == [order |-> order, outcome |-> outcome]

\* Lines 63-114: the positions are fetched and every option position priced.
Poll ==
    /\ hpc = "poll"
    /\ \E st \in [Underlyings -> Stocks], op \in [Underlyings -> OptionLists],
          td \in KeyOrders :
        /\ IsOrderOf(td, Keys(op))
        /\ stocks' = st
        /\ options' = op
        /\ todo' = td
    /\ hpc' = "hedge"
    /\ printed' = <<>>
    /\ orders' = <<>>
    /\ UNCHANGED <<mathVars, solverVars>>

\* Lines 66-114 raise (the broker, the quote stream, the chain lookup, the
\* solver or calculate_delta): nothing catches it and the loop is over.
PollRaises ==
    /\ hpc = "poll"
    /\ hpc' = "stopped"
    /\ UNCHANGED <<stocks, options, todo, printed, orders>>
    /\ UNCHANGED <<mathVars, solverVars>>

\* Lines 117-134, 171-173: the next underlying, delta_imbalance = 0.
HedgeNone ==
    /\ hpc = "hedge"
    /\ todo # <<>>
    /\ ~HasNaN(options[Head(todo)])
    /\ DeltaImbalance(options[Head(todo)], stocks[Head(todo)]) = 0
    /\ printed' = Append(printed,
                         Line(Head(todo), options[Head(todo)], stocks[Head(todo)]))
    /\ todo' = Tail(todo)
    /\ UNCHANGED <<hpc, stocks, options, orders>>
    /\ UNCHANGED <<mathVars, solverVars>>

\* Lines 117-170, 173: the next underlying, delta_imbalance other than 0; the
\* order is placed or place_order raises TastytradeError, which is caught.
HedgeOrder ==
    /\ hpc = "hedge"
    /\ todo # <<>>
    /\ ~HasNaN(options[Head(todo)])
    /\ DeltaImbalance(options[Head(todo)], stocks[Head(todo)]) # 0
    /\ printed' = Append(printed,
                         Line(Head(todo), options[Head(todo)], stocks[Head(todo)]))
    /\ \E outcome \in {"placed", "TastytradeError"} :
        orders' = Append(orders,
                         Submitted(OrderFor(Head(todo),
                                            DeltaImbalance(options[Head(todo)],
                                                           stocks[Head(todo)])),
                                   outcome))
    /\ todo' = Tail(todo)
    /\ UNCHANGED <<hpc, stocks, options>>
    /\ UNCHANGED <<mathVars, solverVars>>

\* Lines 117-170 raise what nothing catches: round() of a NaN (line 120),
\* Equity.get_equity (lines 138, 156), or place_order with an exception that
\* is not a TastytradeError (lines 149, 167).
HedgeRaises ==
    /\ hpc = "hedge"
    /\ todo # <<>>
    /\ \/ /\ HasNaN(options[Head(todo)])
          /\ UNCHANGED <<printed, orders>>
       \/ /\ ~HasNaN(options[Head(todo)])
          /\ DeltaImbalance(options[Head(todo)], stocks[Head(todo)]) # 0
          /\ printed' = Append(printed,
                               Line(Head(todo), options[Head(todo)],
                                    stocks[Head(todo)]))
          /\ \/ UNCHANGED orders
             \/ orders' = Append(orders,
                                 Submitted(OrderFor(Head(todo),
                                                    DeltaImbalance(options[Head(todo)],
                                                                   stocks[Head(todo)])),
                                           "raised"))
    /\ hpc' = "stopped"
    /\ UNCHANGED <<stocks, options, todo>>
    /\ UNCHANGED <<mathVars, solverVars>>

\* Line 175, then lines 63-64 of the next cycle.
Sleep ==
    /\ hpc = "hedge"
    /\ todo = <<>>
    /\ hpc' = "poll"
    /\ stocks' = [u \in Underlyings |-> NoStock]
    /\ options' = [u \in Underlyings |-> <<>>]
    /\ printed' = <<>>
    /\ orders' = <<>>
    /\ UNCHANGED todo
    /\ UNCHANGED <<mathVars, solverVars>>

HedgeNext ==
    \/ Poll
    \/ PollRaises
    \/ HedgeNone
    \/ HedgeOrder
    \/ HedgeRaises
    \/ Sleep

SpecHedge == Init /\ [][HedgeNext]_vars

(***************************************************************************)
(* Properties of the hedging loop.                                         *)
(***************************************************************************)
\* The loop of line 116 has visited u in this cycle and gone on.
Finished(u) == hpc # "poll" /\ options[u] # <<>> /\ ~InSeq(u, todo)

OrdersFor(u) == { i \in 1..Len(orders) : orders[i].order.symbol = u }

PrintedFor(u) == { i \in 1..Len(printed) : printed[i].symbol = u }

\* An option position on u has an implied volatility of 0.005 or less.
LowSigma(u) == \E i \in 1..Len(options[u]) : options[u][i].sigma <= SigmaFloor

\* round(100 * sum(delta * quantity * direction))
\*     + share quantity * share direction
ComputedImbalance(u) ==
    Round(100 * SumDeltas(options[u]), DeltaGrid)
    + stocks[u].quantity * stocks[u].direction

\* C6: in every cycle and for every underlying, an option position on it with
\* sigma <= 0.005 forces the delta imbalance to 0 and no order is submitted
\* for it, whatever the deltas and the shares; an underlying none of whose own
\* options is that low keeps its imbalance and its order, whatever the options
\* on the other underlyings are.
C6_LowSigmaSuppresses ==
    \A u \in Underlyings :
        /\ LowSigma(u) =>
            /\ OrdersFor(u) = {}
            /\ \A i \in PrintedFor(u) : printed[i].delta_imbalance = 0
        /\ Finished(u) /\ LowSigma(u) => PrintedFor(u) # {}
        /\ Finished(u) /\ ~LowSigma(u) =>
            /\ PrintedFor(u) # {}
            /\ \A i \in PrintedFor(u) :
                   printed[i].delta_imbalance = ComputedImbalance(u)
            /\ ComputedImbalance(u) # 0 => OrdersFor(u) # {}

\* Both underlyings are done: one is out of balance and has an option at the
\* 0.005 floor, the other got its order.
C6_Witness ==
    \E u \in Underlyings, v \in Underlyings :
        /\ u # v
        /\ Finished(u) /\ Finished(v)
        /\ LowSigma(u) /\ ComputedImbalance(u) # 0
        /\ \E i \in 1..Len(options[u]) : options[u][i].sigma = SigmaFloor
        /\ ~LowSigma(v) /\ OrdersFor(v) # {}

\* The order is the one delta_imbalance = d asks for: a market order that
\* sells d shares to open, or buys -d.
OrderMatches(o, d) ==
    /\ o.order_type = "MARKET"
    /\ o.quantity \in Nat \ {0}
    /\ \/ d > 0 /\ o.action = "SELL_TO_OPEN" /\ o.quantity = d
       \/ d < 0 /\ o.action = "BUY_TO_OPEN" /\ o.quantity = -d

\* An order placement that failed with TastytradeError did not stop the loop:
\* the visit of that underlying ended and the loop went on.
FailedPlacementGoesOn ==
    \A i \in 1..Len(orders) :
        orders[i].outcome = "TastytradeError" => Finished(orders[i].order.symbol)

\* C10 as stated: per cycle and underlying at most one order, none when
\* delta_imbalance = 0, a market SELL_TO_OPEN of delta_imbalance when it is
\* above 0, a market BUY_TO_OPEN of -delta_imbalance when it is below, with
\* delta_imbalance = round(100 * sum(delta * quantity * direction)) + share
\* quantity * share direction; quantities are strictly positive integers and
\* a TastytradeError does not stop the loop.
C10_OrderFollowsComputedImbalance ==
    /\ \A u \in Underlyings :
        /\ Cardinality(OrdersFor(u)) <= 1
        /\ \A i \in OrdersFor(u) :
               OrderMatches(orders[i].order, ComputedImbalance(u))
        /\ Finished(u) /\ ComputedImbalance(u) # 0 => OrdersFor(u) # {}
    /\ FailedPlacementGoesOn

\* delta_imbalance of C10, amended: 0 when an option position of the
\* underlying has sigma <= 0.005.
HedgedImbalance(u) == IF LowSigma(u) THEN 0 ELSE ComputedImbalance(u)

\* C10, amended: as stated, with delta_imbalance = 0 when an option position
\* of the underlying has sigma <= 0.005 and the stated sum otherwise.
C10_OrderFollowsHedgedImbalance ==
    /\ \A u \in Underlyings :
        /\ Cardinality(OrdersFor(u)) <= 1
        /\ \A i \in OrdersFor(u) :
               OrderMatches(orders[i].order, HedgedImbalance(u))
        /\ Finished(u) /\ HedgedImbalance(u) # 0 => OrdersFor(u) # {}
        /\ Finished(u) /\ HedgedImbalance(u) = 0 => OrdersFor(u) = {}
    /\ FailedPlacementGoesOn

\* A cycle has visited both underlyings: the first sold to open and the
\* placement failed with TastytradeError, the second bought to open.
C10_Witness ==
    /\ Len(orders) = 2
    /\ orders[1].outcome = "TastytradeError"
    /\ orders[1].order.action = "SELL_TO_OPEN"
    /\ orders[2].order.action = "BUY_TO_OPEN"
    /\ orders[2].outcome = "placed"
    /\ \A u \in Underlyings : Finished(u)

(***************************************************************************)
(* Properties of the solver's bracket.                                     *)
(***************************************************************************)
\* 0.0001 <= lower_vol <= upper_vol
BracketOrdered == LowerVol0 <= lower_vol /\ lower_vol <= upper_vol

\* The step is an iteration of the loop: the pricer is called with mid_vol'.
Iterates == spc = "loop" /\ it < call.max_iterations

=============================================================================
